---- MODULE Spec2Model ----
(***************************************************************************)
(* AetherNet: cluster lifecycle (aethernet_swarm_controller.py), adaptive  *)
(* classifier and its feature extraction (aethernet_ai_feedback_loop.py),  *)
(* risk scoring and target prioritisation (aethernet_zoom_targeting.py),   *)
(* base-station rotation schedule and backup assignment                    *)
(* (aethernet_base_station.py).                                            *)
(*                                                                         *)
(* Python dicts are functions whose DOMAIN is the set of keys present, so  *)
(* that dict.get(key, default) is Get below.  Lists of dict references are *)
(* sequences of indices into the table that holds the dicts.               *)
(***************************************************************************)
EXTENDS Integers, Sequences, FiniteSets, TLC

VARIABLES
    drones,      \* the unit dicts, shared by reference with the cluster
    cluster,     \* the cluster dict returned by form_cluster
    lastOp,      \* the cluster operation that ran last
    warnings,    \* the "[WARN] ... lost n member(s)" lines of the last call
    is_trained,  \* AetherNetAI.is_trained
    model,       \* AetherNetAI.model: the fitted estimators, each tagged with
                 \* the fit that built it (<<>> while unfitted)
    fits,        \* number of fits started so far
    aiOp,        \* the AetherNetAI method that ran last
    argData,     \* its dataset argument
    argScan,     \* its current_scan argument
    argSuccess,  \* its success argument
    trainCalls,  \* the datasets train() was invoked with during that call
    result,      \* what predict_next_focus returned
    path,        \* the branch predict_next_focus took
    tpc,         \* position of the thread running train
    rpc,         \* position of the thread running predict_next_focus
    observed,    \* the model state self.model.predict computed from
    reading,     \* sensor_data handed to calculate_risk_score / should_zoom
    score,       \* calculate_risk_score(reading), in thousandths
    zoom,        \* should_zoom(reading)
    scoreDone,   \* the two have been called
    grid_data,   \* prioritize_targets: the readings
    top_n,       \* prioritize_targets: top_n
    targets,     \* what prioritize_targets returned
    prioDone,    \* prioritize_targets has returned
    fleet,       \* recommend_rotation_schedule: the caller's list
    fleetArg,    \* the list as the caller passed it
    schedule,    \* what recommend_rotation_schedule returned
    rotDone,     \* recommend_rotation_schedule has returned
    standby_list,\* assign_backup_unit: the caller's standby list
    standby0,    \* that list before the first call
    assigned,    \* what each assign_backup_unit call returned, in call order
    lastEvent,   \* payload of the last broadcast_to_open_cloud
    record,      \* one record, seen at training and at inference time
    trainRow,    \* its row of the feature matrix preprocess returns
    scanRow,     \* its row of the matrix _vectorize_scan returns
    trainDone,   \* preprocess has run on it
    scanDone,    \* _vectorize_scan has run on it
    station_fleet,   \* base-station rotation_schedule: the fleet passed in
    sorted_fleet,    \* what it returned
    rotation_outcome \* how the call ended: "returned" or the exception raised

clusterVars == <<drones, cluster, lastOp, warnings>>
aiVars == <<is_trained, model, fits, aiOp, argData, argScan, argSuccess,
            trainCalls, result, path>>
threadVars == <<tpc, rpc, observed>>

scoreVars == <<reading, score, zoom, scoreDone>>
prioVars == <<grid_data, top_n, targets, prioDone>>
rotVars == <<fleet, fleetArg, schedule, rotDone>>
backupVars == <<standby_list, standby0, assigned, lastEvent>>
featVars == <<record, trainRow, scanRow, trainDone, scanDone>>
stationVars == <<station_fleet, sorted_fleet, rotation_outcome>>

vars == <<clusterVars, aiVars, threadVars, scoreVars, prioVars, rotVars, backupVars,
          featVars, stationVars>>

\* what the operations of one component leave alone
notCluster == <<aiVars, threadVars, scoreVars, prioVars, rotVars, backupVars,
    featVars, stationVars>>
notAI == <<clusterVars, threadVars, scoreVars, prioVars, rotVars, backupVars,
    featVars, stationVars>>
notThreads == <<clusterVars, aiOp, argSuccess, trainCalls,
                scoreVars, prioVars, rotVars, backupVars, featVars, stationVars>>
notScore == <<clusterVars, aiVars, threadVars, prioVars, rotVars, backupVars,
    featVars, stationVars>>
notPrio == <<clusterVars, aiVars, threadVars, scoreVars, rotVars, backupVars,
    featVars, stationVars>>
notRot == <<clusterVars, aiVars, threadVars, scoreVars, prioVars, backupVars,
    featVars, stationVars>>
notBackup == <<clusterVars, aiVars, threadVars, scoreVars, prioVars, rotVars,
    featVars, stationVars>>
notFeat == <<clusterVars, aiVars, threadVars, scoreVars, prioVars, rotVars, backupVars,
    stationVars>>
notStation == <<clusterVars, aiVars, threadVars, scoreVars, prioVars, rotVars,
    standby_list, standby0, assigned, featVars>>

(***************************************************************************)
(* Bounds                                                                  *)
(***************************************************************************)
NDrones == 5
MaxData == 2
MaxFits == 2
MaxGrid == 3
MaxFleet == 3
MaxStandby == 3

(***************************************************************************)
(* dict helpers                                                            *)
(***************************************************************************)
Get(d, key, default) == IF key \in DOMAIN d THEN d[key] ELSE default

SetKey(d, key, value) ==
    [k \in (DOMAIN d) \cup {key} |-> IF k = key THEN value ELSE d[k]]

Range(s) == {s[i] : i \in 1..Len(s)}

(***************************************************************************)
(* aethernet_swarm_controller.py                                           *)
(***************************************************************************)
DemoBattery == <<65, 40, 85, 55, 30>>

\* the drone dicts of the example: {'id': 'D1', 'battery': 65}, ...
DemoDrones ==
    [i \in 1..NDrones |->
        [id |-> i, battery |-> DemoBattery[((i - 1) % Len(DemoBattery)) + 1]]]

\* a drone_list handed to form_cluster: drones of the table in table order
RECURSIVE SubSeqsFrom(_)
SubSeqsFrom(i) ==
    IF i > NDrones THEN {<<>>}
    ELSE LET rest == SubSeqsFrom(i + 1)
         IN  rest \cup {<<i>> \o r : r \in rest}

DroneLists == SubSeqsFrom(1)

ModeFor_from_three(n) == IF n >= 3 THEN "mesh" ELSE "scan"

\* 'mesh' if len(...) >= 4 else 'scan'
ModeFor(n) == IF n >= 4 THEN "mesh" ELSE "scan"

form_cluster(cluster_id, drone_list) ==
    [id        |-> cluster_id,
     members   |-> drone_list,
     mode      |-> ModeFor(Len(drone_list)),
     status    |-> "active",
     formation |-> [yaw_offset_deg |-> 0, axis |-> "crosswind"]]

Survivors_keep_unset_only(members, ds) ==
    SelectSeq(members, LAMBDA i : Get(ds[i], "status", "ok") = "ok")

\* [d for d in cluster['members'] if d.get('status', 'ok') != 'failed']
Survivors(members, ds) ==
    SelectSeq(members, LAMBDA i : Get(ds[i], "status", "ok") # "failed")

\* the lines printed by reassign_after_failure, each the number lost
LostWarnings(members, survivors) ==
    IF Len(survivors) # Len(members)
    THEN <<Len(members) - Len(survivors)>>
    ELSE <<>>

reassign_stale_mode(c, ds) ==
    [c EXCEPT !.members = Survivors(c.members, ds)]

reassign_retires_empty(c, ds) ==
    LET survivors == Survivors(c.members, ds)
    IN  [c EXCEPT !.members = survivors,
                  !.mode    = ModeFor(Len(survivors)),
                  !.status  = IF survivors = <<>> THEN "inactive" ELSE @]

\* the same dict, with 'members' and 'mode' reassigned
reassign_after_failure(c, ds) ==
    LET survivors == Survivors(c.members, ds)
    IN  [c EXCEPT !.members = survivors,
                  !.mode    = ModeFor(Len(survivors))]

ClusterStart ==
    /\ drones = DemoDrones
    /\ \E drone_list \in DroneLists : cluster = form_cluster("Z9", drone_list)
    /\ lastOp = "form"
    /\ warnings = <<>>

FormCluster(drone_list) ==
    /\ cluster' = form_cluster("Z9", drone_list)
    /\ lastOp' = "form"
    /\ warnings' = <<>>
    /\ UNCHANGED <<drones, notCluster>>

\* cluster['members'][k]['status'] = s  (a failed unit stays failed)
MarkStatus(k, s) ==
    /\ k \in 1..Len(cluster.members)
    /\ Get(drones[cluster.members[k]], "status", "ok") # "failed"
    /\ drones' = [drones EXCEPT ![cluster.members[k]] = SetKey(@, "status", s)]
    /\ lastOp' = "mark"
    /\ UNCHANGED <<cluster, warnings, notCluster>>

\* cluster['formation']['yaw_offset_deg'] = 12.0, set by the caller
SetFormation ==
    /\ cluster.formation.yaw_offset_deg # 12
    /\ cluster' = [cluster EXCEPT !.formation.yaw_offset_deg = 12]
    /\ lastOp' = "formation"
    /\ UNCHANGED <<drones, warnings, notCluster>>

ReassignAfterFailure ==
    /\ cluster' = reassign_after_failure(cluster, drones)
    /\ warnings' = LostWarnings(cluster.members, Survivors(cluster.members, drones))
    /\ lastOp' = "reassign"
    /\ UNCHANGED <<drones, notCluster>>

ClusterNext ==
    \/ \E drone_list \in DroneLists : FormCluster(drone_list)
    \/ \E k \in 1..NDrones, s \in {"degraded", "failed"} : MarkStatus(k, s)
    \/ SetFormation
    \/ ReassignAfterFailure

(***************************************************************************)
(* aethernet_ai_feedback_loop.py                                           *)
(* CAPE is held as an integer, vorticity in units of 0.0001.               *)
(***************************************************************************)
n_estimators == 20

DataEntries ==
    { [CAPE |-> 2000, vorticity |-> 6, storm_formed |-> 1],
      [CAPE |-> 1500, storm_formed |-> 0],
      [vorticity |-> 5] }

RECURSIVE SeqsUpTo(_, _)
SeqsUpTo(S, n) ==
    IF n = 0 THEN {<<>>}
    ELSE LET shorter == SeqsUpTo(S, n - 1)
         IN  shorter \cup {Append(q, x) : q \in shorter, x \in S}

Datasets == SeqsUpTo(DataEntries, MaxData)

Scans ==
    UNION { [keys -> {1500, 2000, 5, 6}] : keys \in SUBSET {"CAPE", "vorticity"} }

ScanInputs ==
    { sc \in Scans :
        /\ "CAPE" \in DOMAIN sc => sc["CAPE"] \in {1500, 2000}
        /\ "vorticity" \in DOMAIN sc => sc["vorticity"] \in {5, 6} }

\* the labels half of preprocess: entry.get('storm_formed', 0) per entry
PreprocessLabels(dataset) ==
    [i \in 1..Len(dataset) |-> Get(dataset[i], "storm_formed", 0)]

\* len(set(y)) < 2
LacksDiversity(dataset) == Cardinality(Range(PreprocessLabels(dataset))) < 2

\* self.model.fit(...): every estimator rebuilt by fit number gen
Fitted(gen) == [i \in 1..n_estimators |-> gen]

FallbackRule_or(scan) == Get(scan, "CAPE", 0) > 1500 \/ Get(scan, "vorticity", 0) > 5

\* current_scan.get("CAPE", 0) > 1500 and current_scan.get("vorticity", 0) > 0.0005
FallbackRule(scan) == Get(scan, "CAPE", 0) > 1500 /\ Get(scan, "vorticity", 0) > 5

AIStart ==
    /\ is_trained = FALSE
    /\ model = <<>>
    /\ fits = 0
    /\ aiOp = "init"
    /\ argData = <<>>
    /\ argScan = <<>>
    /\ argSuccess = TRUE
    /\ trainCalls = <<>>
    /\ result = FALSE
    /\ path = "none"

ThreadStart ==
    /\ tpc = "idle"
    /\ rpc = "idle"
    /\ observed = <<>>

\* the effect of train(dataset) on the classifier
TrainEffect_always_fit(dataset) ==
    /\ fits < MaxFits
    /\ fits' = fits + 1
    /\ model' = Fitted(fits + 1)
    /\ is_trained' = TRUE

TrainEffect(dataset) ==
    IF LacksDiversity(dataset)
    THEN UNCHANGED <<is_trained, model, fits>>
    ELSE /\ fits < MaxFits
         /\ fits' = fits + 1
         /\ model' = Fitted(fits + 1)
         /\ is_trained' = TRUE

Train(dataset) ==
    /\ TrainEffect(dataset)
    /\ aiOp' = "train"
    /\ argData' = dataset
    /\ trainCalls' = <<dataset>>
    /\ UNCHANGED <<argScan, argSuccess, result, path, notAI>>

PredictNextFocus(current_scan) ==
    /\ IF ~is_trained
       THEN /\ path' = "fallback"
            /\ result' = FallbackRule(current_scan)
       ELSE /\ path' = "model"
            /\ \E prediction \in BOOLEAN : result' = prediction
    /\ aiOp' = "predict"
    /\ argScan' = current_scan
    /\ trainCalls' = <<>>
    /\ UNCHANGED <<is_trained, model, fits, argData, argSuccess, notAI>>

RetrainOnOutcome_always(original_dataset, success) ==
    /\ TrainEffect(original_dataset)
    /\ trainCalls' = <<original_dataset>>
    /\ aiOp' = "retrain"
    /\ argData' = original_dataset
    /\ argSuccess' = success
    /\ UNCHANGED <<argScan, result, path, notAI>>

RetrainOnOutcome(original_dataset, success) ==
    /\ IF ~success
       THEN /\ TrainEffect(original_dataset)
            /\ trainCalls' = <<original_dataset>>
       ELSE /\ UNCHANGED <<is_trained, model, fits>>
            /\ trainCalls' = <<>>
    /\ aiOp' = "retrain"
    /\ argData' = original_dataset
    /\ argSuccess' = success
    /\ UNCHANGED <<argScan, result, path, notAI>>

AINext ==
    \/ \E dataset \in Datasets : Train(dataset)
    \/ \E current_scan \in ScanInputs : PredictNextFocus(current_scan)
    \/ \E dataset \in Datasets, success \in BOOLEAN : RetrainOnOutcome(dataset, success)

(***************************************************************************)
(* train and predict_next_focus on two threads.  Nothing in AetherNetAI    *)
(* locks or copies: train fits self.model in place and predict reads the   *)
(* same object.                                                            *)
(***************************************************************************)
\* X, y = self.preprocess(dataset); if len(set(y)) < 2: return
T_Begin(dataset) ==
    /\ tpc = "idle"
    /\ IF LacksDiversity(dataset)
       THEN UNCHANGED <<tpc, fits>>
       ELSE /\ fits < MaxFits
            /\ fits' = fits + 1
            /\ tpc' = "fit"
    /\ argData' = dataset
    /\ UNCHANGED <<is_trained, model, argScan, result, path, rpc, observed, notThreads>>

\* self.model.fit(X_train, y_train) drops the estimators of the last fit ...
T_FitReset ==
    /\ tpc = "fit"
    /\ model' = <<>>
    /\ tpc' = "grow"
    /\ UNCHANGED <<is_trained, fits, argData, argScan, result, path, rpc, observed, notThreads>>

\* ... and builds the n_estimators new ones
T_FitGrow ==
    /\ tpc = "grow"
    /\ model' = Append(model, fits)
    /\ tpc' = IF Len(model) + 1 = n_estimators THEN "fitted" ELSE "grow"
    /\ UNCHANGED <<is_trained, fits, argData, argScan, result, path, rpc, observed, notThreads>>

\* self.is_trained = True
T_Finish ==
    /\ tpc = "fitted"
    /\ is_trained' = TRUE
    /\ tpc' = "idle"
    /\ UNCHANGED <<model, fits, argData, argScan, result, path, rpc, observed, notThreads>>

\* if not self.is_trained: return <rule>;  features = self._vectorize_scan(...)
R_Begin(current_scan) ==
    /\ rpc = "idle"
    /\ argScan' = current_scan
    /\ IF ~is_trained
       THEN /\ path' = "fallback"
            /\ result' = FallbackRule(current_scan)
            /\ UNCHANGED rpc
       ELSE /\ rpc' = "predict"
            /\ UNCHANGED <<path, result>>
    /\ UNCHANGED <<is_trained, model, fits, argData, tpc, observed, notThreads>>

\* prediction = self.model.predict(features)[0]
R_Predict ==
    /\ rpc = "predict"
    /\ observed' = model
    /\ path' = "model"
    /\ \E prediction \in BOOLEAN : result' = prediction
    /\ rpc' = "idle"
    /\ UNCHANGED <<is_trained, model, fits, argData, argScan, tpc, notThreads>>

ThreadsNext ==
    \/ \E dataset \in Datasets : T_Begin(dataset)
    \/ T_FitReset
    \/ T_FitGrow
    \/ T_Finish
    \/ \E current_scan \in ScanInputs : R_Begin(current_scan)
    \/ R_Predict

(***************************************************************************)
(* aethernet_zoom_targeting.py                                             *)
(* Units: CAPE as is, vorticity in 0.0001, humidity and anomaly_score in   *)
(* 0.01, vertical_velocity in 0.1; weights in 0.01; scores in 0.001.       *)
(* The arithmetic is exact; the float error of the source is far below the *)
(* rounding step of round(score, 3).                                       *)
(***************************************************************************)
Min(a, b) == IF a <= b THEN a ELSE b
Max(a, b) == IF a >= b THEN a ELSE b

FeatureKeys == <<"CAPE", "vorticity", "humidity", "vertical_velocity", "anomaly_score">>

\* weights = {...}
weights ==
    [CAPE |-> 25, vorticity |-> 25, humidity |-> 15,
     vertical_velocity |-> 15, anomaly_score |-> 20]

\* norm = {...}
norm ==
    [CAPE |-> 4000, vorticity |-> 15, humidity |-> 100,
     vertical_velocity |-> 30, anomaly_score |-> 100]

\* a common denominator of the five value / norm[key] quotients
NormLcm == 12000

\* round(n / d) to the nearest integer.  On an exact tie round(score, 3)
\* goes the way the float representation of the sum leans; the readings
\* modelled (SensorValues, GridReadings) produce no tie.
RoundDiv(n, d) ==
    LET q == n \div d
        r == n % d
    IN  IF 2 * r < d THEN q
        ELSE IF 2 * r > d THEN q + 1
        ELSE IF q % 2 = 0 THEN q ELSE q + 1

Term_unclamped(sensor_data, key) ==
    weights[key] * Get(sensor_data, key, 0) * (NormLcm \div norm[key])

\* w * min(value / norm[key], 1.0), over the denominator 100 * NormLcm
Term(sensor_data, key) ==
    weights[key] * Min(Get(sensor_data, key, 0) * (NormLcm \div norm[key]), NormLcm)

RECURSIVE SumTerms(_, _)
SumTerms(sensor_data, k) ==
    IF k = 0 THEN 0
    ELSE SumTerms(sensor_data, k - 1) + Term(sensor_data, FeatureKeys[k])

calculate_risk_score(sensor_data) ==
    RoundDiv(1000 * SumTerms(sensor_data, Len(FeatureKeys)), 100 * NormLcm)

\* score_threshold: float = 0.65
score_threshold == 650

should_zoom(sensor_data, threshold) == calculate_risk_score(sensor_data) >= threshold

InsertByScore_before_ties(sorted, x) ==
    LET ahead == SelectSeq(sorted, LAMBDA e : e[2] > x[2])
        behind == SelectSeq(sorted, LAMBDA e : e[2] <= x[2])
    IN  ahead \o <<x>> \o behind

\* one step of the stable descending sort: x goes behind every entry that
\* scores at least as much
InsertByScore(sorted, x) ==
    LET ahead == SelectSeq(sorted, LAMBDA e : e[2] >= x[2])
        behind == SelectSeq(sorted, LAMBDA e : e[2] < x[2])
    IN  ahead \o <<x>> \o behind

\* sorted(scored, key=lambda x: x[1], reverse=True)
RECURSIVE SortedByScoreDesc(_)
SortedByScoreDesc(scored) ==
    IF scored = <<>> THEN <<>>
    ELSE InsertByScore(SortedByScoreDesc(SubSeq(scored, 1, Len(scored) - 1)),
                       scored[Len(scored)])

\* seq[:n]
SliceTo(seq, n) ==
    SubSeq(seq, 1, IF n < 0 THEN Max(Len(seq) + n, 0) ELSE Min(n, Len(seq)))

prioritize_targets(grid, n) ==
    LET scored == [i \in 1..Len(grid) |-> <<grid[i], calculate_risk_score(grid[i])>>]
    IN  SliceTo(SortedByScoreDesc(scored), n)

SensorValues ==
    [CAPE |-> {-4000, 0, 2000, 4000, 4500},
     vorticity |-> {0, 5, 15, 16},
     humidity |-> {0, 50, 100},
     vertical_velocity |-> {0, 10, 30, 32},
     anomaly_score |-> {0, 33, 100}]

\* every dict over the first k feature keys, each key present or not
RECURSIVE ReadingsOver(_)
ReadingsOver(k) ==
    IF k = 0 THEN {<<>>}
    ELSE LET rest == ReadingsOver(k - 1)
         IN  rest \cup { SetKey(r, FeatureKeys[k], v) :
                            r \in rest, v \in SensorValues[FeatureKeys[k]] }

SensorReadings == ReadingsOver(Len(FeatureKeys))

GridReadings ==
    { [CAPE |-> 4000],
      [vorticity |-> 15],
      [CAPE |-> 4000, vorticity |-> 15],
      [humidity |-> 50] }

ScoreIdle ==
    /\ reading = <<>>
    /\ score = 0
    /\ zoom = FALSE
    /\ scoreDone = FALSE

ScoreStart ==
    /\ reading \in SensorReadings
    /\ score = 0
    /\ zoom = FALSE
    /\ scoreDone = FALSE

ScoreReading ==
    /\ ~scoreDone
    /\ score' = calculate_risk_score(reading)
    /\ zoom' = should_zoom(reading, score_threshold)
    /\ scoreDone' = TRUE
    /\ UNCHANGED <<reading, notScore>>

PrioIdle ==
    /\ grid_data = <<>>
    /\ top_n = 0
    /\ targets = <<>>
    /\ prioDone = FALSE

PrioStart ==
    /\ grid_data \in SeqsUpTo(GridReadings, MaxGrid)
    /\ top_n \in -2..(MaxGrid + 1)
    /\ targets = <<>>
    /\ prioDone = FALSE

PrioritizeTargets ==
    /\ ~prioDone
    /\ targets' = prioritize_targets(grid_data, top_n)
    /\ prioDone' = TRUE
    /\ UNCHANGED <<grid_data, top_n, notPrio>>

(***************************************************************************)
(* Feature extraction (aethernet_ai_feedback_loop.py).  bank, aoa and yaw   *)
(* are whole degrees.  A heading is [deg |-> d, tiny |-> t], the float      *)
(* d + t * 1e-20: whole degrees, or a heading next to 0 that is too small   *)
(* to change any float of the size of 360.  heading_norm is held in 1/360,  *)
(* bank_norm in 1/30, aoa_norm in 1/15, yaw_norm in 1/180.                  *)
(***************************************************************************)
ALIGNMENT_MODES == {"upwind", "downwind", "crosswind", "none"}

\* str.lower() on the mode strings modelled
Lower(str) ==
    CASE str = "UPWIND" -> "upwind"
      [] str = "Downwind" -> "downwind"
      [] OTHER -> str

Abs(x) == IF x < 0 THEN -x ELSE x

\* meta = entry.get("angle_meta", {})
AngleMeta(entry) == Get(entry, "angle_meta", <<>>)

\* entry.get(key, meta.get(key)) is not None
HasAngle(entry, key) == key \in DOMAIN entry \/ key \in DOMAIN AngleMeta(entry)

\* entry.get(key, meta.get(key))
AngleField(entry, key) ==
    IF key \in DOMAIN entry THEN entry[key] ELSE AngleMeta(entry)[key]

\* float(x or 0.0)
AngleOrZero(entry, key) == IF HasAngle(entry, key) THEN AngleField(entry, key) ELSE 0

\* float(heading) % 360.0, a float: Python gives the remainder the sign of
\* 360.0, so a negative heading yields 360.0 - r rounded to the nearest
\* float, and for a heading just below 0 that float is 360.0 itself
FloatMod360(heading) ==
    IF heading.tiny < 0 /\ heading.deg % 360 = 0
    THEN 360
    ELSE heading.deg % 360

extract_angle_features(entry) ==
    LET heading_norm == IF HasAngle(entry, "heading_deg")
                        THEN FloatMod360(AngleField(entry, "heading_deg")) ELSE 0
        bank_norm == Min(Abs(AngleOrZero(entry, "bank_deg")), 30)
        aoa_norm  == Min(Abs(AngleOrZero(entry, "angle_of_attack_deg")), 15)
        yaw_norm  == Min(Abs(AngleOrZero(entry, "formation_yaw_offset_deg")), 180)
        lowered   == IF HasAngle(entry, "alignment_mode")
                     THEN Lower(AngleField(entry, "alignment_mode")) ELSE "none"
        align     == IF lowered \in ALIGNMENT_MODES THEN lowered ELSE "none"
        up    == IF align = "upwind" THEN 1 ELSE 0
        down  == IF align = "downwind" THEN 1 ELSE 0
        cross == IF align = "crosswind" THEN 1 ELSE 0
    IN  <<heading_norm, bank_norm, aoa_norm, yaw_norm, up, down, cross>>

\* the features half of preprocess
PreprocessFeatures(dataset) ==
    [i \in 1..Len(dataset) |->
        <<Get(dataset[i], "CAPE", 0),
          Get(dataset[i], "vorticity", 0),
          Get(dataset[i], "humidity", 0),
          Get(dataset[i], "vertical_velocity", 0),
          Get(dataset[i], "anomaly_score", 0)>>
        \o extract_angle_features(dataset[i])]

\* _vectorize_scan: a matrix of one row
vectorize_scan(current_scan) ==
    << <<Get(current_scan, "CAPE", 0),
         Get(current_scan, "vorticity", 0),
         Get(current_scan, "humidity", 0),
         Get(current_scan, "vertical_velocity", 0),
         Get(current_scan, "anomaly_score", 0)>>
       \o extract_angle_features(current_scan) >>

AngleKeys ==
    <<"heading_deg", "bank_deg", "angle_of_attack_deg",
      "formation_yaw_offset_deg", "alignment_mode">>

AngleValues ==
    [heading_deg |-> {[deg |-> -90, tiny |-> 0], [deg |-> 725, tiny |-> 0],
                      [deg |-> 0, tiny |-> -1]},
     bank_deg |-> {-45, 10},
     angle_of_attack_deg |-> {20},
     formation_yaw_offset_deg |-> {-200, 90},
     alignment_mode |-> {"UPWIND", "downwind", "crosswind", "sideways", "none"}]

\* every dict over the first k angle keys, each key present or not
RECURSIVE AngleDictsOver(_)
AngleDictsOver(k) ==
    IF k = 0 THEN {<<>>}
    ELSE LET rest == AngleDictsOver(k - 1)
         IN  rest \cup { SetKey(r, AngleKeys[k], v) :
                            r \in rest, v \in AngleValues[AngleKeys[k]] }

\* the angle_meta blocks of the example and a partial one
AngleMetas ==
    { [heading_deg |-> [deg |-> 350, tiny |-> 0], bank_deg |-> 5, angle_of_attack_deg |-> 2,
       formation_yaw_offset_deg |-> 25, alignment_mode |-> "crosswind"],
      [alignment_mode |-> "Downwind", bank_deg |-> 30] }

SensorParts ==
    { <<>>,
      [CAPE |-> 2000, vorticity |-> 6, humidity |-> 80, storm_formed |-> 1],
      [vertical_velocity |-> 12, anomaly_score |-> 70, storm_formed |-> 0] }

\* {**a, **b}
Merge(a, b) ==
    [k \in (DOMAIN a) \cup (DOMAIN b) |-> IF k \in DOMAIN b THEN b[k] ELSE a[k]]

FeatureRecords ==
    LET flat == { Merge(sp, ad) : sp \in SensorParts,
                                  ad \in AngleDictsOver(Len(AngleKeys)) }
    IN  flat \cup { SetKey(r, "angle_meta", m) : r \in flat, m \in AngleMetas }

FeatIdle ==
    /\ record = <<>>
    /\ trainRow = <<>>
    /\ scanRow = <<>>
    /\ trainDone = FALSE
    /\ scanDone = FALSE

FeatStart ==
    /\ record \in FeatureRecords
    /\ trainRow = <<>>
    /\ scanRow = <<>>
    /\ trainDone = FALSE
    /\ scanDone = FALSE

\* X, y = self.preprocess([record])
PreprocessRecord ==
    /\ ~trainDone
    /\ trainRow' = PreprocessFeatures(<<record>>)[1]
    /\ trainDone' = TRUE
    /\ UNCHANGED <<record, scanRow, scanDone, notFeat>>

\* features = self._vectorize_scan(record)
VectorizeRecord ==
    /\ ~scanDone
    /\ scanRow' = vectorize_scan(record)[1]
    /\ scanDone' = TRUE
    /\ UNCHANGED <<record, trainRow, trainDone, notFeat>>

FeatNext == PreprocessRecord \/ VectorizeRecord

(***************************************************************************)
(* recommend_rotation_schedule (aethernet_swarm_controller.py)             *)
(***************************************************************************)
BatteryKey_default_0(d) == Get(d, "battery", 0)

\* key=lambda d: d.get('battery', 100)
BatteryKey(d) == Get(d, "battery", 100)

\* one step of the stable ascending sort: x goes behind every entry whose
\* key is not larger
InsertByBattery(sorted, x) ==
    LET ahead == SelectSeq(sorted, LAMBDA e : BatteryKey(e) <= BatteryKey(x))
        behind == SelectSeq(sorted, LAMBDA e : BatteryKey(e) > BatteryKey(x))
    IN  ahead \o <<x>> \o behind

\* sorted(drones, key=...)
RECURSIVE recommend_rotation_schedule(_)
recommend_rotation_schedule(ds) ==
    IF ds = <<>> THEN <<>>
    ELSE InsertByBattery(recommend_rotation_schedule(SubSeq(ds, 1, Len(ds) - 1)),
                         ds[Len(ds)])

RotationUnits ==
    { [id |-> "D1", battery |-> 65],
      [id |-> "D2", battery |-> 30],
      [id |-> "D3"],
      [id |-> "D4", battery |-> 100],
      [id |-> "D5", battery |-> 30] }

RotIdle ==
    /\ fleet = <<>>
    /\ fleetArg = <<>>
    /\ schedule = <<>>
    /\ rotDone = FALSE

RotStart ==
    /\ fleet \in SeqsUpTo(RotationUnits, MaxFleet)
    /\ fleetArg = fleet
    /\ schedule = <<>>
    /\ rotDone = FALSE

RecommendRotationSchedule ==
    /\ ~rotDone
    /\ schedule' = recommend_rotation_schedule(fleet)
    /\ rotDone' = TRUE
    /\ UNCHANGED <<fleet, fleetArg, notRot>>

(***************************************************************************)
(* aethernet_base_station.py                                               *)
(***************************************************************************)
StandbyIds == {"D99", "D100", "D101"}

MaxCalls == MaxStandby + 2

assign_backup_unit_pop_first(standby) ==
    IF standby # <<>>
    THEN [assigned |-> standby[1], standby |-> SubSeq(standby, 2, Len(standby))]
    ELSE [assigned |-> "None", standby |-> standby]

\* assigned = standby_list.pop() if standby_list else None
assign_backup_unit(standby) ==
    IF standby # <<>>
    THEN [assigned |-> standby[Len(standby)],
          standby  |-> SubSeq(standby, 1, Len(standby) - 1)]
    ELSE [assigned |-> "None", standby |-> standby]

BackupIdle ==
    /\ standby_list = <<>>
    /\ standby0 = <<>>
    /\ assigned = <<>>
    /\ lastEvent = <<>>

BackupStart ==
    /\ standby_list \in SeqsUpTo(StandbyIds, MaxStandby)
    /\ standby0 = standby_list
    /\ assigned = <<>>
    /\ lastEvent = <<>>

AssignBackupUnit(cluster_id) ==
    /\ Len(assigned) < MaxCalls
    /\ LET call == assign_backup_unit(standby_list)
       IN  /\ standby_list' = call.standby
           /\ assigned' = Append(assigned, call.assigned)
           /\ lastEvent' = [event |-> "assign_backup_unit",
                            cluster_id |-> cluster_id,
                            assigned_unit |-> call.assigned]
    /\ UNCHANGED <<standby0, notBackup>>

\* sorted(fleet, key=lambda d: d['battery']) evaluates the key of every unit
\* before it orders any
AllHaveBattery(fl) == \A i \in 1..Len(fl) : "battery" \in DOMAIN fl[i]

\* one step of the stable ascending sort on d['battery']
InsertByOwnBattery(sorted, x) ==
    LET ahead == SelectSeq(sorted, LAMBDA e : e["battery"] <= x["battery"])
        behind == SelectSeq(sorted, LAMBDA e : e["battery"] > x["battery"])
    IN  ahead \o <<x>> \o behind

RECURSIVE SortedByOwnBattery(_)
SortedByOwnBattery(fl) ==
    IF fl = <<>> THEN <<>>
    ELSE InsertByOwnBattery(SortedByOwnBattery(SubSeq(fl, 1, Len(fl) - 1)),
                            fl[Len(fl)])

\* rotation_schedule(fleet): the sorted fleet and the event broadcast, or the
\* KeyError of d['battery'] that leaves the function before either exists
rotation_schedule(fl) ==
    IF AllHaveBattery(fl)
    THEN LET sorted == SortedByOwnBattery(fl)
             rotation_order == [i \in 1..Len(sorted) |-> sorted[i]["id"]]
         IN  [outcome |-> "returned",
              sorted_fleet |-> sorted,
              broadcast |-> <<[event |-> "rotation_schedule",
                               rotation_order |-> rotation_order]>>]
    ELSE [outcome |-> "KeyError", sorted_fleet |-> <<>>, broadcast |-> <<>>]

StationUnits ==
    { [id |-> "D01", battery |-> 62],
      [id |-> "D02", battery |-> 29],
      [id |-> "D03", battery |-> 83],
      [id |-> "D04", battery |-> 29],
      [id |-> "D05"] }

StationIdle ==
    /\ station_fleet = <<>>
    /\ sorted_fleet = <<>>
    /\ rotation_outcome = "not called"

StationStart ==
    /\ station_fleet \in SeqsUpTo(StationUnits, MaxFleet)
    /\ sorted_fleet = <<>>
    /\ rotation_outcome = "not called"

\* a call that raises returns nothing and broadcasts nothing
RotationSchedule ==
    /\ rotation_outcome = "not called"
    /\ LET call == rotation_schedule(station_fleet)
       IN  /\ rotation_outcome' = call.outcome
           /\ sorted_fleet' = call.sorted_fleet
           /\ lastEvent' = IF call.broadcast = <<>> THEN lastEvent
                           ELSE call.broadcast[1]
    /\ UNCHANGED <<station_fleet, notStation>>

(***************************************************************************)
(* Specifications: one per component, the other components at rest         *)
(***************************************************************************)
ClusterIdle ==
    /\ drones = DemoDrones
    /\ cluster = form_cluster("Z9", <<>>)
    /\ lastOp = "form"
    /\ warnings = <<>>

ClusterInit ==
    ClusterStart /\ AIStart /\ ThreadStart /\ ScoreIdle /\ PrioIdle /\ RotIdle /\ BackupIdle
    /\ FeatIdle /\ StationIdle

SpecCluster == ClusterInit /\ [][ClusterNext]_vars

AIInit ==
    ClusterIdle /\ AIStart /\ ThreadStart /\ ScoreIdle /\ PrioIdle /\ RotIdle /\ BackupIdle
    /\ FeatIdle /\ StationIdle

SpecAI == AIInit /\ [][AINext]_vars

SpecAIThreads == AIInit /\ [][ThreadsNext]_vars

ScoreInit ==
    ClusterIdle /\ AIStart /\ ThreadStart /\ ScoreStart /\ PrioIdle /\ RotIdle /\ BackupIdle
    /\ FeatIdle /\ StationIdle

SpecScore == ScoreInit /\ [][ScoreReading]_vars

PrioInit ==
    ClusterIdle /\ AIStart /\ ThreadStart /\ ScoreIdle /\ PrioStart /\ RotIdle /\ BackupIdle
    /\ FeatIdle /\ StationIdle

SpecPrioritize == PrioInit /\ [][PrioritizeTargets]_vars

RotInit ==
    ClusterIdle /\ AIStart /\ ThreadStart /\ ScoreIdle /\ PrioIdle /\ RotStart /\ BackupIdle
    /\ FeatIdle /\ StationIdle

SpecRotation == RotInit /\ [][RecommendRotationSchedule]_vars

BackupInit ==
    ClusterIdle /\ AIStart /\ ThreadStart /\ ScoreIdle /\ PrioIdle /\ RotIdle /\ BackupStart
    /\ FeatIdle /\ StationIdle

BackupNext == \E cluster_id \in {"DeltaCluster"} : AssignBackupUnit(cluster_id)

SpecBackup == BackupInit /\ [][BackupNext]_vars

FeatInit ==
    ClusterIdle /\ AIStart /\ ThreadStart /\ ScoreIdle /\ PrioIdle /\ RotIdle /\ BackupIdle
    /\ FeatStart /\ StationIdle

SpecFeatures == FeatInit /\ [][FeatNext]_vars

StationInit ==
    ClusterIdle /\ AIStart /\ ThreadStart /\ ScoreIdle /\ PrioIdle /\ RotIdle /\ BackupIdle
    /\ FeatIdle /\ StationStart

StationNext == RotationSchedule

SpecStation == StationInit /\ [][StationNext]_vars

(***************************************************************************)
(* Claims about the cluster lifecycle                                      *)
(***************************************************************************)
Status(d) == Get(d, "status", "ok")

\* C1: directly after form_cluster and directly after every
\* reassign_after_failure the mode is 'mesh' if and only if the cluster has
\* at least 4 members, and 'scan' otherwise.
C1_ModeFollowsMemberCount ==
    lastOp \in {"form", "reassign"} =>
        /\ cluster.mode \in {"mesh", "scan"}
        /\ cluster.mode = "mesh" <=> Len(cluster.members) >= 4
        /\ cluster.mode = "scan" <=> Len(cluster.members) < 4

\* a mesh cluster of 4 lost a member and was demoted by the reassignment
C1_Witness ==
    /\ lastOp = "reassign"
    /\ warnings = <<1>>
    /\ Len(cluster.members) = 3
    /\ cluster.mode = "scan"

Pos(seq, x) == CHOOSE p \in 1..Len(seq) : seq[p] = x

FailedPositions(members, ds) ==
    {k \in 1..Len(members) : Status(ds[members[k]]) = "failed"}

\* C2: reassign_after_failure removes exactly the members whose status is
\* 'failed': every other member (another status, or none) remains, in its
\* original relative order, and the number reported lost is the number of
\* failed members before the call (no line when none was lost).
C2_RemovesExactlyFailed ==
    [][lastOp' = "reassign" =>
        LET before == cluster.members
            after  == cluster'.members
            nFail  == Cardinality(FailedPositions(before, drones))
        IN  /\ Range(after) = {i \in Range(before) : Status(drones[i]) # "failed"}
            /\ Len(after) = Len(before) - nFail
            /\ \A a, b \in 1..Len(after) :
                   a < b => Pos(before, after[a]) < Pos(before, after[b])
            /\ warnings' = IF nFail > 0 THEN <<nFail>> ELSE <<>>
            /\ drones' = drones
    ]_vars

\* the end-to-end scenario: D1..D4 formed, the second member failed, a
\* member with another status kept
C2_Witness ==
    /\ lastOp = "reassign"
    /\ cluster.members = <<1, 3, 4>>
    /\ Status(drones[2]) = "failed"
    /\ Status(drones[3]) = "degraded"
    /\ "status" \notin DOMAIN drones[1]
    /\ cluster.mode = "scan"
    /\ warnings = <<1>>

\* the members of the cluster that are not failed
ActiveCount(c, ds) == Len(c.members) - Cardinality(FailedPositions(c.members, ds))

\* C13, as stated: in every state reachable by form_cluster, members
\* changing status to failed, and reassign_after_failure, a cluster whose
\* mode is 'mesh' has at least 4 active (non-failed) members.
C13_MeshAlwaysHasFourActive ==
    cluster.mode = "mesh" => ActiveCount(cluster, drones) >= 4

\* C13, amended: directly after every reassign_after_failure a cluster whose
\* mode is 'mesh' has at least 4 active (non-failed) members.
C13_MeshHasFourActiveAfterReassign ==
    lastOp = "reassign" =>
        (cluster.mode = "mesh" => ActiveCount(cluster, drones) >= 4)

\* a mesh cluster of 5 lost one member and is still mesh, all 4 active
C13_Witness ==
    /\ lastOp = "reassign"
    /\ warnings = <<1>>
    /\ cluster.mode = "mesh"
    /\ Len(cluster.members) = 4
    /\ ActiveCount(cluster, drones) = 4
    /\ \E i \in 1..NDrones : Status(drones[i]) = "failed"

\* C14: across any sequence of reassign_after_failure calls on one cluster
\* the member count never increases, the mode changes only from 'mesh' to
\* 'scan', the cluster's id, status ('active') and formation are never
\* changed (also when the cluster becomes empty), unit records are not
\* modified, and a call with no failure since the previous one removes
\* nothing and changes nothing.
C14_ReassignOnlyShrinks ==
    [][lastOp' = "reassign" =>
        /\ Len(cluster'.members) <= Len(cluster.members)
        /\ cluster.mode = "scan" => cluster'.mode = "scan"
        /\ cluster'.mode # cluster.mode =>
               cluster.mode = "mesh" /\ cluster'.mode = "scan"
        /\ cluster'.id = cluster.id
        /\ cluster'.status = "active" /\ cluster'.status = cluster.status
        /\ cluster'.formation = cluster.formation
        /\ DOMAIN cluster' = DOMAIN cluster
        /\ drones' = drones
        /\ FailedPositions(cluster'.members, drones') = {}
        /\ FailedPositions(cluster.members, drones) = {} =>
               cluster' = cluster /\ warnings' = <<>>
        /\ lastOp = "reassign" => cluster' = cluster /\ warnings' = <<>>
    ]_vars

\* every member of a mesh cluster with a formation set failed: the cluster
\* is empty, in scan mode, still active and keeps its formation
C14_Witness ==
    /\ lastOp = "reassign"
    /\ warnings = <<4>>
    /\ cluster.members = <<>>
    /\ cluster.mode = "scan"
    /\ cluster.status = "active"
    /\ cluster.id = "Z9"
    /\ cluster.formation = [yaw_offset_deg |-> 12, axis |-> "crosswind"]
    /\ \A i \in 1..4 : Status(drones[i]) = "failed"

(***************************************************************************)
(* Claims about AetherNetAI                                                *)
(***************************************************************************)
IsWholeModel(m) ==
    /\ Len(m) = n_estimators
    /\ \A i, j \in 1..Len(m) : m[i] = m[j]

\* C3: with train running concurrently with predict_next_focus, every
\* prediction is computed from a fully-old or a fully-new model, never from
\* a partially updated one.
C3_ReadersSeeWholeModel == path = "model" => IsWholeModel(observed)

Label(entry) == IF "storm_formed" \in DOMAIN entry THEN entry["storm_formed"] ELSE 0

FewerThanTwoLabels(dataset) ==
    \A i, j \in 1..Len(dataset) : Label(dataset[i]) = Label(dataset[j])

\* C4: train on a dataset with fewer than 2 distinct label values leaves the
\* model and the trained flag as they were, and the trained flag becomes
\* true only through a train call on a dataset with at least 2 distinct
\* label values.
C4_TrainNeedsDiversity ==
    [][/\ (aiOp' = "train" /\ FewerThanTwoLabels(argData')) =>
             (model' = model /\ is_trained' = is_trained)
       /\ (~is_trained /\ is_trained') =>
             (trainCalls' # <<>> /\ ~FewerThanTwoLabels(trainCalls'[1]))
    ]_vars

\* a trained classifier was handed a one-class dataset and kept its model
C4_Witness ==
    /\ aiOp = "train"
    /\ Len(argData) = 2
    /\ FewerThanTwoLabels(argData)
    /\ is_trained
    /\ model = Fitted(1)

\* C5: retrain_on_outcome with success=true leaves the trained flag and the
\* model unchanged whatever the dataset and the classifier state; with
\* success=false it invokes train on that same dataset.
C5_RetrainOnOutcome ==
    [][aiOp' = "retrain" =>
        IF argSuccess'
        THEN /\ model' = model
             /\ is_trained' = is_trained
             /\ trainCalls' = <<>>
        ELSE /\ trainCalls' = <<argData'>>
             /\ ~FewerThanTwoLabels(argData') => (is_trained' /\ model' # model)
             /\ FewerThanTwoLabels(argData') =>
                    (is_trained' = is_trained /\ model' = model)
    ]_vars

\* an untrained classifier stayed untrained on success=true although the
\* dataset would have trained it
C5_Witness ==
    /\ aiOp = "retrain"
    /\ argSuccess
    /\ ~FewerThanTwoLabels(argData)
    /\ ~is_trained
    /\ model = <<>>

\* CAPE > 1500 AND vorticity > 0.0005, a missing field being 0
RuleOfSpec(scan) ==
    /\ "CAPE" \in DOMAIN scan /\ scan["CAPE"] > 1500
    /\ "vorticity" \in DOMAIN scan /\ scan["vorticity"] > 5

\* C6: while untrained, predict_next_focus returns exactly the fallback rule;
\* once trained is true it stays true and every later call takes the model
\* path.
C6_FallbackThenModel ==
    /\ [](aiOp = "predict" =>
            IF is_trained
            THEN path = "model"
            ELSE path = "fallback" /\ result = RuleOfSpec(argScan))
    /\ [][is_trained => is_trained']_vars

\* after training, a prediction that differs from the fallback rule
C6_Witness ==
    /\ aiOp = "predict"
    /\ is_trained
    /\ path = "model"
    /\ result # RuleOfSpec(argScan)

(***************************************************************************)
(* Claims about risk scoring and prioritisation                            *)
(***************************************************************************)
\* the sequences of m distinct indices into a list of length n
InjectiveSeqs(n, m) ==
    { f \in [1..m -> 1..n] : \A a, b \in 1..m : a # b => f[a] # f[b] }

\* targets are (reading, score) pairs of distinct entries of grid_data, each
\* score calculate_risk_score of its reading, non-increasing by score, equal
\* scores in their original relative order, and nothing left out scores
\* higher than an entry that was taken
IsRanking(grid, out) ==
    \E idx \in InjectiveSeqs(Len(grid), Len(out)) :
        /\ \A k \in 1..Len(out) :
              out[k] = <<grid[idx[k]], calculate_risk_score(grid[idx[k]])>>
        /\ \A k, l \in 1..Len(out) :
              k < l => /\ out[k][2] >= out[l][2]
                       /\ out[k][2] = out[l][2] => idx[k] < idx[l]
        /\ \A j \in (1..Len(grid)) \ Range(idx) : \A k \in 1..Len(out) :
              calculate_risk_score(grid[j]) <= out[k][2]

\* C7 as stated: prioritize_targets(readings, top_n) returns exactly
\* min(top_n, len(readings)) pairs, each score calculate_risk_score of its
\* reading, non-increasing by score, stable on ties, no higher-scoring
\* reading left out in favour of a lower-scoring one.
C7_AsStated ==
    prioDone =>
        /\ Len(targets) = Min(top_n, Len(grid_data))
        /\ IsRanking(grid_data, targets)

\* C7 amended: the count is min(top_n, len(readings)) for top_n >= 0; for a
\* negative top_n the ranking is returned without its last -top_n entries;
\* the ranking properties hold in both cases.
C7_CountForNonNegativeTopN ==
    prioDone =>
        /\ top_n >= 0 => Len(targets) = Min(top_n, Len(grid_data))
        /\ top_n < 0 => Len(targets) = Max(Len(grid_data) + top_n, 0)
        /\ IsRanking(grid_data, targets)

\* two of three readings taken: the tied pair in input order, the lowest
\* score left out although it came first
C7_Witness ==
    /\ prioDone
    /\ top_n = 2
    /\ grid_data = <<[humidity |-> 50], [CAPE |-> 4000], [vorticity |-> 15]>>
    /\ targets = <<(<<[CAPE |-> 4000], 250>>), (<<[vorticity |-> 15], 250>>)>>

NonNegative(r) == \A k \in DOMAIN r : r[k] >= 0

AllZero(r) == \A k \in DOMAIN r : r[k] = 0

AtOrAboveCaps(r) ==
    /\ DOMAIN r = {"CAPE", "vorticity", "humidity", "vertical_velocity", "anomaly_score"}
    /\ r["CAPE"] >= 4000
    /\ r["vorticity"] >= 15
    /\ r["humidity"] >= 100
    /\ r["vertical_velocity"] >= 30
    /\ r["anomaly_score"] >= 100

\* C8: for a reading whose features are non-negative (missing ones 0.0) the
\* risk score is in [0,1]; it is 0.0 for the all-zero reading and 1.0 when
\* every feature is at or above its cap, and should_zoom at the default
\* threshold 0.65 is then true.
C8_ScoreRange ==
    (scoreDone /\ NonNegative(reading)) =>
        /\ score \in 0..1000
        /\ AllZero(reading) => score = 0
        /\ AtOrAboveCaps(reading) => (score = 1000 /\ zoom)

\* features above their caps are clamped: the score is 1.0 and the zone zooms
C8_Witness ==
    /\ scoreDone
    /\ AtOrAboveCaps(reading)
    /\ reading["CAPE"] = 4500
    /\ reading["vertical_velocity"] = 32
    /\ score = 1000
    /\ zoom

(***************************************************************************)
(* Claims about rotation scheduling and backup assignment                  *)
(***************************************************************************)
BatteryOrHundred(d) == IF "battery" \in DOMAIN d THEN d["battery"] ELSE 100

\* C9: recommend_rotation_schedule returns a permutation of its input in
\* ascending battery order, a unit without battery ordered as if it had
\* battery 100, equal batteries in input order, the input left unchanged.
C9_StableAscendingByBattery ==
    rotDone =>
        /\ fleet = fleetArg
        /\ Len(schedule) = Len(fleetArg)
        /\ \E idx \in InjectiveSeqs(Len(fleetArg), Len(fleetArg)) :
              /\ \A k \in 1..Len(schedule) : schedule[k] = fleetArg[idx[k]]
              /\ \A k, l \in 1..Len(schedule) :
                    k < l =>
                      /\ BatteryOrHundred(schedule[k]) <= BatteryOrHundred(schedule[l])
                      /\ BatteryOrHundred(schedule[k]) = BatteryOrHundred(schedule[l])
                            => idx[k] < idx[l]

\* the unit without battery goes behind battery 30 and, tied with battery
\* 100, stays ahead of the unit that followed it in the input
C9_Witness ==
    /\ rotDone
    /\ fleetArg = <<[id |-> "D3"], [id |-> "D4", battery |-> 100],
                    [id |-> "D2", battery |-> 30]>>
    /\ schedule = <<[id |-> "D2", battery |-> 30], [id |-> "D3"],
                    [id |-> "D4", battery |-> 100]>>

IsInjectiveSeq(q) == \A a, b \in 1..Len(q) : a # b => q[a] # q[b]

CarriesMode(r, mode) ==
    IF "alignment_mode" \in DOMAIN r
    THEN Lower(r["alignment_mode"]) = mode
    ELSE /\ "angle_meta" \in DOMAIN r
         /\ "alignment_mode" \in DOMAIN r["angle_meta"]
         /\ Lower(r["angle_meta"]["alignment_mode"]) = mode

Flag(b) == IF b THEN 1 ELSE 0

\* C11: for every record the 12-element vector built at training time
\* (preprocess) is the one built at inference time (_vectorize_scan): the 5
\* sensor features with default 0.0, then heading in [0,1), bank,
\* angle-of-attack and yaw in [0,1], and a one-hot over upwind / downwind /
\* crosswind that is all zero for a missing or unrecognized mode.
C11_SameVectorTrainAndInference ==
    (trainDone /\ scanDone) =>
        /\ trainRow = scanRow
        /\ Len(scanRow) = 12
        /\ \A k \in 1..5 :
              scanRow[k] = IF FeatureKeys[k] \in DOMAIN record
                           THEN record[FeatureKeys[k]] ELSE 0
        /\ scanRow[6] \in 0..359
        /\ scanRow[7] \in 0..30
        /\ scanRow[8] \in 0..15
        /\ scanRow[9] \in 0..180
        /\ scanRow[10] = Flag(CarriesMode(record, "upwind"))
        /\ scanRow[11] = Flag(CarriesMode(record, "downwind"))
        /\ scanRow[12] = Flag(CarriesMode(record, "crosswind"))

(***************************************************************************)
(* Claims about the base-station rotation schedule                         *)
(***************************************************************************)
\* C12: rotation_schedule(fleet) completes without failing for every fleet,
\* also one in which some unit has no battery value, returns every unit of
\* the fleet, and broadcasts one rotation_schedule event that lists their
\* ids in the returned order.
C12_RotationNeverFails ==
    rotation_outcome # "not called" =>
        /\ rotation_outcome = "returned"
        /\ Len(sorted_fleet) = Len(station_fleet)
        /\ \A u \in StationUnits :
              Cardinality({i \in 1..Len(sorted_fleet) : sorted_fleet[i] = u})
                  = Cardinality({i \in 1..Len(station_fleet) : station_fleet[i] = u})
        /\ lastEvent = [event |-> "rotation_schedule",
                        rotation_order |->
                            [i \in 1..Len(sorted_fleet) |-> sorted_fleet[i]["id"]]]

====
